---- MODULE Spec2Model ----
(***************************************************************************)
(* work-boots: the ready handshake and message relay between a Controller  *)
(* (class WorkBoots) and a Peer (class Socks), src/src/index.js.           *)
(*                                                                         *)
(* JavaScript is single threaded and run-to-completion: every public       *)
(* method call, every promise reaction and every message event is one      *)
(* atomic action, and the synchronous calls it makes (the bridge calls     *)
(* between the two objects, the application callbacks) are part of it.     *)
(*                                                                         *)
(* A JavaScript value is modelled as a non-empty sequence of strings: the  *)
(* last element is an atom, every element before it is the single key of   *)
(* an enclosing object.  <<"o1">> is an application object without a data  *)
(* key, <<"data","o1">> is {data: o1}, <<"socks loaded">> is the string.   *)
(***************************************************************************)
EXTENDS Integers, Sequences, FiniteSets, TLC

\* ---- bounds of the model ------------------------------------------------
MaxPosts == 2
MaxCalls == 3

\* ---- values ---------------------------------------------------------------
NoErr == "none"
TypeErr == "TypeError"
NoCallbackErr == "onMessageLocal should not be called without onMessageCallback defined"
NoSocksFileErr == "no socksFile defined!"
CallbackErr == "Test error"

SocksLoaded == <<"socks loaded">>
Undefined == <<"undefined">>
Null == <<"null">>
EmptyString == <<"">>
Zero == <<"0">>
False == <<"false">>

\* the atoms that are objects: two application objects, {}, [] and the object
\* a replying application callback posts
ObjectAtoms == {"o1", "o2", "{}", "[]", "ack"}

\* v is an object the in operator accepts (not null, not a primitive)
IsObject(v) == Len(v) > 1 \/ v[1] \in ObjectAtoms

\* typeof v === 'object'
TypeofObject(v) == IsObject(v) \/ v = Null

\* !!v
Truthy(v) == v \notin {Undefined, Null, EmptyString, Zero, False}

\* the first element of [data, origin, undefined].filter(arg => !!arg), undefined
\* when the filter leaves nothing (transfer is [] in every call)
FirstTruthy(data, origin) ==
  IF Truthy(data) THEN data ELSE IF Truthy(origin) THEN origin ELSE Undefined

\* 'data' in v, for an object v
HasDataKey(v) == Len(v) > 1 /\ v[1] = "data"

\* { data: v }
Wrap(v) == <<"data">> \o v

\* v?.data
DataOf(v) == IF HasDataKey(v) THEN Tail(v) ELSE Undefined

\* the payloads the application posts: an object without a data key, and one
\* already shaped as an Envelope
Payloads == {<<"o1">>, <<"data", "o2">>}

\* the values the edge-case tests post, and an Envelope that carries the
\* readiness sentinel
EdgePayloads == {Undefined, Null, EmptyString, <<"[]">>, <<"{}">>, Wrap(SocksLoaded)}

\* the payloads of the remote relay: an object and the falsy values
OpaquePayloads == {<<"o1">>, Zero, EmptyString, False, Null}

\* the origin argument of Socks.postMessage: absent, or a string
Origins == {Undefined, <<"https://app.example">>}

\* the object the echoing worker module answers with: { re: data }
Reply(m) == <<"re">> \o DataOf(m)

AppCallbacks == {"app1", "app2"}
PeerCallbacks == {"rec", "echo"}

\* an application callback that answers from inside the callback:
\* m => { if (!isAck(m)) boots.postMessage(ack) }
PostingAppCallbacks == {"appPost"}
Ack == <<"ack">>
IsAck(m) == m = Ack \/ DataOf(m) = Ack

\* callbacks that throw: () => { throw new Error('Test error') }
ThrowingAppCallbacks == {"appThrow"}
ThrowingPeerCallbacks == {"peerThrow"}
FactoryKinds == {"throws", "slot", "on", "promise", "undef"}
HostKinds == {"none", "slot", "on"}

VARIABLES
  cfg,      \* the environment: isBrowser/isNode, whether a global Worker type exists
  boots,    \* the WorkBoots object
  worker,   \* the handle the factory returned (this.worker) or that it threw, the
            \* handle's listeners, what was sent to it
  socks,    \* the Socks object
  host,     \* the Socks object's host (self): its handlers, what was sent through it
  blog,     \* invocations of the Controller's application callbacks, in order
  slog,     \* invocations of the Peer's application callback, in order
  thrown,   \* the error the last call threw, NoErr when it returned normally
  readyResult, \* the promise the last ready() call returned: <<state, value>>
  posts,    \* number of postMessage calls made so far
  calls     \* number of other API calls made so far

vars == <<cfg, boots, worker, socks, host, blog, slog, thrown, readyResult, posts, calls>>

\* the object graph a call works on
World == [cfg |-> cfg, boots |-> boots, worker |-> worker, socks |-> socks,
          host |-> host, blog |-> blog, slog |-> slog, err |-> NoErr]

Ok(w) == w.err = NoErr
Throw(w, e) == [w EXCEPT !.err = e]

isBrowser(w) == w.cfg.env = "browser"
isNode(w) == w.cfg.env = "node"

\* ---- the Controller: class WorkBoots --------------------------------------

\* resolve(this): settles the readiness promise unless it is settled already
resolve(w) ==
  IF w.boots.readyPromise.state = "pending"
  THEN [w EXCEPT !.boots.readyPromise = [state |-> "resolved", value |-> "this"]]
  ELSE w

\* how a callback of the Controller is called: directly on the path via, or by
\* the replay of onMessage
Direct(via) == [via |-> via, replayed |-> FALSE]

\* the internal readiness listener.  It keeps [message, ...rest]: rest tells how
\* the listener was called, "post" (data, origin, transfer) by the pre-ready
\* branch of postMessage, "local" by onMessageLocal, "event" by the remote
\* handle, "mock" by the stand-in Peer
velcroAndLaces(w, message, rest) ==
  IF DataOf(message) = SocksLoaded
  THEN resolve(w)
  ELSE [w EXCEPT !.boots.receivedBeforeReady = Append(@, [msg |-> message, via |-> rest.via])]

\* what a callback of the application records of a call
Seen(w, cb, message, rest) ==
  [cb |-> cb, msg |-> message, via |-> rest.via, replayed |-> rest.replayed,
   resolved |-> w.boots.readyPromise.state = "resolved"]

\* the callback that a postMessage made from inside an application callback
\* hands its message to: it is the callback's own answer, which no callback
\* answers again
AnswerCallback(w, cb, message, rest) ==
  IF cb = "none" THEN Throw(w, TypeErr)
  ELSE IF cb = "velcro" THEN velcroAndLaces(w, message, rest)
  ELSE LET w1 == [w EXCEPT !.blog = Append(@, Seen(w, cb, message, rest))]
       IN IF cb \in ThrowingAppCallbacks THEN Throw(w1, CallbackErr) ELSE w1

\* this.postMessage(data) called from inside an application callback:
\* WorkBoots.postMessage with the callbacks it reaches one call deep (the Peer's
\* callback records the answer)
NestedPostMessage(w, data) ==
  IF ~w.boots.isReady
  THEN AnswerCallback(w, w.boots.onMessageCallback, data, Direct("post"))
  ELSE IF ~IsObject(data) THEN Throw(w, TypeErr)
  ELSE LET message == IF HasDataKey(data) THEN data ELSE Wrap(data)
       IN IF w.boots.supportsWorker /\ w.worker.kind \in {"slot", "on"}
          THEN [w EXCEPT !.worker.sent = Append(@, data)]
          ELSE IF w.boots.socks = "loaded"
               THEN IF w.socks.onMessageCallback = "none" THEN Throw(w, NoCallbackErr)
                    ELSE LET w1 == [w EXCEPT !.slog = Append(@, message)]
                         IN IF w.socks.onMessageCallback \in ThrowingPeerCallbacks
                            THEN Throw(w1, CallbackErr) ELSE w1
          ELSE IF w.boots.socks = "standin"
               THEN IF w.boots.onMessageCallback # "none"
                    THEN AnswerCallback(w, w.boots.onMessageCallback,
                                        Wrap(DataOf(message)), Direct("mock"))
                    ELSE w
          ELSE w

\* a callback the application registered with WorkBoots.onMessage: it records
\* what it is called with, whether the call is a replay by onMessage, and
\* whether the readiness promise was resolved by then; a posting callback then
\* calls postMessage on its Controller
AppCallback(w, cb, message, rest) ==
  LET w1 == [w EXCEPT !.blog = Append(@, Seen(w, cb, message, rest))]
  IN IF cb \in ThrowingAppCallbacks THEN Throw(w1, CallbackErr)
     ELSE IF cb \in PostingAppCallbacks /\ ~IsAck(message)
          THEN NestedPostMessage(w1, Ack)
     ELSE w1

\* this.onMessageCallback(message, ...rest)
BootsCallback(w, cb, message, rest) ==
  IF cb = "none" THEN Throw(w, TypeErr)
  ELSE IF cb = "velcro" THEN velcroAndLaces(w, message, rest)
  ELSE AppCallback(w, cb, message, rest)

WorkBoots_onMessageLocal(w, data) ==
  IF w.boots.onMessageCallback # "none"
  THEN BootsCallback(w, w.boots.onMessageCallback, Wrap(data), Direct("local"))
  ELSE Throw(w, NoCallbackErr)

\* receivedBeforeReady.forEach(m => this.onMessageCallback && this.onMessageCallback(...m))
RECURSIVE ReplayReceived(_, _)
ReplayReceived(w, i) ==
  IF ~Ok(w) \/ i > Len(w.boots.receivedBeforeReady) THEN w
  ELSE ReplayReceived(
         IF w.boots.onMessageCallback # "none"
         THEN BootsCallback(w, w.boots.onMessageCallback,
                            w.boots.receivedBeforeReady[i].msg,
                            [via |-> w.boots.receivedBeforeReady[i].via, replayed |-> TRUE])
         ELSE w,
         i + 1)

WorkBoots_onMessage(w, callback) ==
  LET w1 == [w EXCEPT !.boots.onMessageCallback = callback]
      w2 == IF w1.worker.kind = "none" THEN w1
            ELSE IF isBrowser(w1) THEN [w1 EXCEPT !.worker.onmessage = callback]
            ELSE IF w1.worker.kind = "on"
                 THEN [w1 EXCEPT !.worker.listeners = Append(@, callback)]
                 ELSE [w1 EXCEPT !.worker.onmessage = callback]
  IN IF ~w2.boots.fieldsInit THEN Throw(w2, TypeErr)
     ELSE ReplayReceived(w2, 1)

\* ---- the Peer: class Socks ------------------------------------------------

isWorkerSupported(w) ==
  IF isBrowser(w) THEN w.cfg.hasWorkerType /\ w.socks.self # "none"
  ELSE w.socks.self # "none"

\* this.self.postMessage(data, ...): the host's send primitive
HostSend(w, data) == [w EXCEPT !.host.sent = Append(@, data)]

\* Socks.postMessage that queues until the sentinel was sent, not until isReady
Socks_postMessage_QueueUntilSent(w, data) ==
  IF ~w.socks.sentReadyMessage
  THEN [w EXCEPT !.socks.postsBeforeReady = Append(@, data)]
  ELSE IF data = Null THEN Throw(w, TypeErr)
  ELSE LET message == IF TypeofObject(data) /\ HasDataKey(data) THEN data ELSE Wrap(data)
       IN IF isWorkerSupported(w) THEN HostSend(w, data)
          ELSE IF w.socks.boots THEN WorkBoots_onMessageLocal(w, message)
          ELSE Throw(w, TypeErr)

\* Socks.postMessage(data, origin) once isReady: in a browser the arguments of
\* the host's send primitive are filtered for truthiness
Socks_postMessageReady(w, data, origin) ==
  IF data = Null THEN Throw(w, TypeErr)
  ELSE LET message == IF TypeofObject(data) /\ HasDataKey(data) THEN data ELSE Wrap(data)
       IN IF isWorkerSupported(w)
          THEN IF isBrowser(w) THEN HostSend(w, FirstTruthy(data, origin))
               ELSE HostSend(w, data)
          ELSE IF w.socks.boots THEN WorkBoots_onMessageLocal(w, message)
          ELSE Throw(w, TypeErr)

\* Socks.postMessage(data): origin is undefined
Socks_postMessage(w, data) ==
  IF ~w.socks.isReady
  THEN [w EXCEPT !.socks.postsBeforeReady = Append(@, data)]
  ELSE Socks_postMessageReady(w, data, Undefined)

\* this.postsBeforeReady.forEach(args => this.postMessage(...args))
RECURSIVE DrainPosts(_, _, _)
DrainPosts(w, queue, i) ==
  IF ~Ok(w) \/ i > Len(queue) THEN w
  ELSE DrainPosts(Socks_postMessage(w, queue[i]), queue, i + 1)

\* processReadyMessages that forgets to empty the queue
processReadyMessages_NoClear(w) ==
  IF w.socks.sentReadyMessage
  THEN DrainPosts(w, w.socks.postsBeforeReady, 1)
  ELSE w

\* this.postsBeforeReady = [], reached when no replayed call threw
ClearPosts(w) == IF Ok(w) THEN [w EXCEPT !.socks.postsBeforeReady = <<>>] ELSE w

processReadyMessages(w) ==
  IF w.socks.sentReadyMessage
  THEN ClearPosts(DrainPosts(w, w.socks.postsBeforeReady, 1))
  ELSE w

\* this.sentReadyMessage = true, reached when handing over the sentinel did not throw
SentinelSent(w) == IF Ok(w) THEN [w EXCEPT !.socks.sentReadyMessage = TRUE] ELSE w

\* this.isReady = true; this.processReadyMessages()
ReadyAndDrain(w) ==
  IF Ok(w) THEN processReadyMessages([w EXCEPT !.socks.isReady = TRUE]) ELSE w

Socks_ready(w) ==
  ReadyAndDrain(IF isWorkerSupported(w)
                THEN SentinelSent(Socks_postMessage(w, SocksLoaded))
                ELSE IF w.socks.boots
                     THEN SentinelSent(WorkBoots_onMessageLocal(w, SocksLoaded))
                     ELSE w)

\* enterBoots that does not send the sentinel a ready() before adoption withheld
enterBoots_NoCatchUp(w) ==
  LET w1 == [w EXCEPT !.socks.boots = TRUE]
      w3 == IF w1.socks.self # "none" /\ w1.host.onmessage # "none"
            THEN [w1 EXCEPT !.socks.onMessageCallback = w1.host.onmessage]
            ELSE w1
  IN [w3 EXCEPT !.socks.self = "none"]

\* enterBoots that keeps the host reference
enterBoots_KeepSelf(w) ==
  LET w1 == [w EXCEPT !.socks.boots = TRUE]
      w2 == IF w1.socks.isReady /\ ~w1.socks.sentReadyMessage THEN Socks_ready(w1) ELSE w1
  IN IF w2.socks.self # "none" /\ w2.host.onmessage # "none"
     THEN [w2 EXCEPT !.socks.onMessageCallback = w2.host.onmessage]
     ELSE w2

\* the end of enterBoots: the host's handler property is taken over and the
\* host reference dropped
TakeOverHost(w) ==
  IF ~Ok(w) THEN w
  ELSE IF w.socks.self # "none" /\ w.host.onmessage # "none"
       THEN [w EXCEPT !.socks.onMessageCallback = w.host.onmessage, !.socks.self = "none"]
       ELSE [w EXCEPT !.socks.self = "none"]

enterBoots(w) ==
  LET w1 == [w EXCEPT !.socks.boots = TRUE]
  IN TakeOverHost(IF w1.socks.isReady /\ ~w1.socks.sentReadyMessage
                  THEN Socks_ready(w1) ELSE w1)

\* a callback the worker module registered with Socks.onMessage: "rec" records
\* the message, "echo" records it and answers socks.postMessage({re: data})
PeerCallback(w, cb, message) ==
  LET w1 == [w EXCEPT !.slog = Append(@, message)]
  IN IF cb = "echo" THEN Socks_postMessage(w1, Reply(message))
     ELSE IF cb \in ThrowingPeerCallbacks THEN Throw(w1, CallbackErr)
     ELSE w1

\* onMessageLocal that ignores a message when no callback is registered
Socks_onMessageLocal_Silent(w, data) ==
  IF w.socks.onMessageCallback # "none"
  THEN PeerCallback(w, w.socks.onMessageCallback, data)
  ELSE w

Socks_onMessageLocal(w, data) ==
  IF w.socks.onMessageCallback # "none"
  THEN PeerCallback(w, w.socks.onMessageCallback, data)
  ELSE Throw(w, NoCallbackErr)

Socks_onMessage(w, callback) ==
  IF isWorkerSupported(w)
  THEN IF isBrowser(w) THEN [w EXCEPT !.host.onmessage = callback]
       ELSE IF w.socks.self = "on"
            THEN [w EXCEPT !.host.listeners = Append(@, callback)]
            ELSE [w EXCEPT !.host.onmessage = callback]
  ELSE [w EXCEPT !.socks.onMessageCallback = callback]

Socks_onTerminate(w) == [w EXCEPT !.socks.terminateCallback = TRUE]

\* Socks.terminate calling the host's terminate without looking at this.self
Socks_terminate_AnyHost(w) ==
  LET w1 == IF w.socks.terminateCallback
            THEN [w EXCEPT !.socks.terminateCalls = @ + 1] ELSE w
  IN IF w1.cfg.hostTerminate
     THEN [w1 EXCEPT !.host.terminated = @ + 1] ELSE w1

Socks_terminate(w) ==
  LET w1 == IF w.socks.terminateCallback
            THEN [w EXCEPT !.socks.terminateCalls = @ + 1] ELSE w
  IN IF w1.socks.self # "none" /\ w1.cfg.hostTerminate
     THEN [w1 EXCEPT !.host.terminated = @ + 1] ELSE w1

\* ---- the Controller's operations that reach the Peer ----------------------

\* the stand-in Peer the constructor synthesizes when the module load fails:
\* its onMessageLocal closes over the Controller (this.onMessageCallback)
MockSocks_onMessageLocal(w, message) ==
  IF w.boots.onMessageCallback # "none"
  THEN BootsCallback(w, w.boots.onMessageCallback, Wrap(DataOf(message)), Direct("mock"))
  ELSE w

\* this.worker.postMessage(data, ...): the remote handle's send primitive
WorkerSend(w, data) == [w EXCEPT !.worker.sent = Append(@, data)]

\* this.worker is a handle that exposes postMessage and terminate
WorkerIsHandle(w) == w.worker.kind \in {"slot", "on"}

\* WorkBoots.postMessage handing the remote handle the Envelope instead of data
WorkBoots_postMessage_RemoteEnvelope(w, data) ==
  IF ~w.boots.isReady
  THEN BootsCallback(w, w.boots.onMessageCallback, data, Direct("post"))
  ELSE IF ~IsObject(data) THEN Throw(w, TypeErr)
  ELSE LET message == IF HasDataKey(data) THEN data ELSE Wrap(data)
       IN IF w.boots.supportsWorker /\ WorkerIsHandle(w)
          THEN WorkerSend(w, message)
          ELSE IF w.boots.socks = "loaded" THEN Socks_onMessageLocal(w, message)
          ELSE IF w.boots.socks = "standin" THEN MockSocks_onMessageLocal(w, message)
          ELSE w

\* WorkBoots.postMessage handing the Peer data instead of the Envelope
WorkBoots_postMessage_NoEnvelope(w, data) ==
  IF ~w.boots.isReady
  THEN BootsCallback(w, w.boots.onMessageCallback, data, Direct("post"))
  ELSE IF ~IsObject(data) THEN Throw(w, TypeErr)
  ELSE IF w.boots.supportsWorker /\ WorkerIsHandle(w)
       THEN WorkerSend(w, data)
       ELSE IF w.boots.socks = "loaded" THEN Socks_onMessageLocal(w, data)
       ELSE IF w.boots.socks = "standin" THEN MockSocks_onMessageLocal(w, data)
       ELSE w

WorkBoots_postMessage(w, data) ==
  IF ~w.boots.isReady
  THEN BootsCallback(w, w.boots.onMessageCallback, data, Direct("post"))
  ELSE IF ~IsObject(data) THEN Throw(w, TypeErr)
  ELSE LET message == IF HasDataKey(data) THEN data ELSE Wrap(data)
       IN IF w.boots.supportsWorker /\ WorkerIsHandle(w)
          THEN WorkerSend(w, data)
          ELSE IF w.boots.socks = "loaded" THEN Socks_onMessageLocal(w, message)
          ELSE IF w.boots.socks = "standin" THEN MockSocks_onMessageLocal(w, message)
          ELSE w

WorkBoots_terminate(w) ==
  IF w.boots.supportsWorker /\ WorkerIsHandle(w)
  THEN [w EXCEPT !.worker.terminated = @ + 1]
  ELSE IF w.boots.socks = "loaded" THEN Socks_terminate(w)
  ELSE w

\* terminate() of the second definition of class WorkBoots: no test of
\* this.worker or this.socks before the call
Legacy_terminate(w) ==
  IF w.boots.supportsWorker
  THEN IF WorkerIsHandle(w) THEN [w EXCEPT !.worker.terminated = @ + 1]
       ELSE Throw(w, TypeErr)
  ELSE IF w.boots.socks = "loaded" THEN Socks_terminate(w)
  ELSE Throw(w, TypeErr)

detectWorkerSupport(w) == IF isBrowser(w) THEN w.cfg.hasWorkerType ELSE TRUE

\* the constructor's tail loading the module although the factory returned a handle
Instantiate_AlwaysLoad(w, factory) ==
  LET w1 == IF w.boots.supportsWorker
            THEN IF factory = "throws"
                 THEN [w EXCEPT !.boots.supportsWorker = FALSE, !.worker.threw = TRUE]
                 ELSE [w EXCEPT !.worker.kind = IF factory = "undef" THEN "none" ELSE factory,
                                !.boots.supportsWorker = TRUE,
                                !.boots.isReady = TRUE]
            ELSE w
  IN IF ~w1.boots.supportsWorker \/ w1.worker.kind = "none"
     THEN [w1 EXCEPT !.boots.supportsWorker = FALSE, !.boots.loading = TRUE]
     ELSE resolve([w1 EXCEPT !.boots.loading = TRUE])

\* lines 50-90 of the constructor, after this.onMessage(velcroAndLaces):
\* factory is what instantiateWorker(socksFile) does
Instantiate(w, factory) ==
  LET w1 == IF w.boots.supportsWorker
            THEN IF factory = "throws"
                 THEN [w EXCEPT !.boots.supportsWorker = FALSE, !.worker.threw = TRUE]
                 ELSE [w EXCEPT !.worker.kind = IF factory = "undef" THEN "none" ELSE factory,
                                !.boots.supportsWorker = TRUE,
                                !.boots.isReady = TRUE]
            ELSE w
  IN IF ~w1.boots.supportsWorker \/ w1.worker.kind = "none"
     THEN [w1 EXCEPT !.boots.supportsWorker = FALSE, !.boots.loading = TRUE]
     ELSE resolve(w1)

WorkBoots_constructor(w, socksFile, factory) ==
  IF ~socksFile
  THEN [w EXCEPT !.boots.constructed = TRUE, !.boots.impl = "universal",
                 !.boots.readyPromise = [state |-> "rejected", value |-> NoSocksFileErr]]
  ELSE LET w1 == [w EXCEPT !.boots.constructed = TRUE, !.boots.impl = "universal",
                           !.boots.socksFile = TRUE,
                           !.boots.fieldsInit = TRUE,
                           !.boots.supportsWorker = detectWorkerSupport(w),
                           !.boots.readyPromise = [state |-> "pending", value |-> "none"]]
       IN Instantiate(WorkBoots_onMessage(w1, "velcro"), factory)

\* the then-callback without its resolve(this)
LoadThen_NoResolve(w) ==
  LET w1 == enterBoots([w EXCEPT !.boots.socks = "loaded"])
  IN IF Ok(w1) THEN [w1 EXCEPT !.boots.isReady = TRUE] ELSE w1

\* the then-callback of loadSocksFile(socksFile)
\* this.isReady = true; resolve(this), reached when enterBoots did not throw
ReadyAndResolve(w) == IF Ok(w) THEN resolve([w EXCEPT !.boots.isReady = TRUE]) ELSE w

LoadThen(w) == ReadyAndResolve(enterBoots([w EXCEPT !.boots.socks = "loaded"]))

\* the catch-callback: the stand-in Peer is bound (its enterBoots sets this.boots)
LoadCatch(w) ==
  resolve([w EXCEPT !.boots.socks = "standin", !.boots.isReady = TRUE, !.err = NoErr])

\* the constructor of the second definition of class WorkBoots: no return after
\* the rejection, readyPromise is assigned again, no immediate resolve, no catch
Legacy_constructor(w, socksFile, factory) ==
  LET w0 == IF ~socksFile
            THEN [w EXCEPT !.boots.readyPromise =
                              [state |-> "rejected", value |-> NoSocksFileErr]]
            ELSE [w EXCEPT !.boots.socksFile = TRUE]
      w1 == [w0 EXCEPT !.boots.constructed = TRUE, !.boots.impl = "legacy",
                       !.boots.fieldsInit = TRUE,
                       !.boots.supportsWorker = w.cfg.hasWorkerType,
                       !.boots.readyPromise = [state |-> "pending", value |-> "none"]]
      w2 == WorkBoots_onMessage(w1, "velcro")
      w3 == IF w2.boots.supportsWorker
            THEN IF factory = "throws"
                 THEN [w2 EXCEPT !.boots.supportsWorker = FALSE, !.worker.threw = TRUE]
                 ELSE [w2 EXCEPT !.worker.kind = IF factory = "undef" THEN "none" ELSE factory,
                                 !.boots.isReady = TRUE]
            ELSE w2
  IN IF ~w3.boots.supportsWorker THEN [w3 EXCEPT !.boots.loading = TRUE] ELSE w3

\* ---- the state machine ----------------------------------------------------

\* the environments: browser with or without a global Worker type, or Node;
\* the host handed to new Socks(self) is absent, has an onmessage slot, or (Node's
\* parentPort) has on()
Environments ==
  {c \in [env : {"browser", "node"}, hasWorkerType : BOOLEAN, hostTerminate : BOOLEAN] :
     c.env = "node" => ~c.hasWorkerType}

InitObjects ==
  /\ boots = [constructed |-> FALSE, impl |-> "none", socksFile |-> FALSE,
              fieldsInit |-> FALSE, supportsWorker |-> FALSE, isReady |-> FALSE,
              receivedBeforeReady |-> <<>>, onMessageCallback |-> "none",
              socks |-> "none", loading |-> FALSE,
              readyPromise |-> [state |-> "none", value |-> "none"]]
  /\ worker = [kind |-> "none", threw |-> FALSE, onmessage |-> "none",
               listeners |-> <<>>, sent |-> <<>>, delivered |-> 0, terminated |-> 0]
  /\ \E self \in HostKinds :
       /\ (self = "none" => ~cfg.hostTerminate)
       /\ (self = "on" => cfg.env = "node")
       /\ socks = [self |-> self, postsBeforeReady |-> <<>>, isReady |-> FALSE,
                   sentReadyMessage |-> FALSE, boots |-> FALSE,
                   onMessageCallback |-> "none", terminateCallback |-> FALSE,
                   terminateCalls |-> 0]
  /\ host = [onmessage |-> "none", listeners |-> <<>>, sent |-> <<>>,
             delivered |-> 0, terminated |-> 0]
  /\ blog = <<>>
  /\ slog = <<>>
  /\ thrown = NoErr
  /\ readyResult = <<>>
  /\ posts = 0
  /\ calls = 0

\* the message relay: no operation of it looks at the host's terminate
Init ==
  /\ cfg \in {c \in Environments : ~c.hostTerminate}
  /\ InitObjects

InitLifecycle ==
  /\ cfg \in Environments
  /\ InitObjects

\* the state after a call that left the object graph as w
Becomes(w) ==
  /\ boots' = w.boots
  /\ worker' = w.worker
  /\ socks' = w.socks
  /\ host' = w.host
  /\ blog' = w.blog
  /\ slog' = w.slog
  /\ thrown' = w.err
  /\ UNCHANGED cfg

\* the worker module's code runs: in the remote unit, or in the main thread
\* from the moment the module load was started
PeerExists == WorkerIsHandle(World) \/ boots.loading \/ boots.socks = "loaded"

\* the application holds a Controller of the first definition
HasController == boots.constructed /\ boots.impl = "universal"

Construct(socksFile, factory) ==
  /\ ~boots.constructed
  /\ Becomes(WorkBoots_constructor(World, socksFile, factory))
  /\ UNCHANGED <<posts, calls, readyResult>>

ConstructLegacy(socksFile, factory) ==
  /\ ~boots.constructed
  /\ Becomes(Legacy_constructor(World, socksFile, factory))
  /\ UNCHANGED <<posts, calls, readyResult>>

\* .then(...).catch(...): the catch-callback runs when the then-callback threw;
\* the second definition has no catch
CatchIfThrown(w) == IF Ok(w) \/ w.boots.impl = "legacy" THEN w ELSE LoadCatch(w)

\* the module load settles: fulfilled (then, and catch when then throws) ...
LoadComplete ==
  /\ boots.loading /\ boots.socksFile
  /\ Becomes(CatchIfThrown(LoadThen([World EXCEPT !.boots.loading = FALSE])))
  /\ UNCHANGED <<posts, calls, readyResult>>

\* ... or rejected
LoadFail ==
  /\ boots.loading
  /\ LET w0 == [World EXCEPT !.boots.loading = FALSE]
     IN Becomes(IF boots.impl = "legacy" THEN w0 ELSE LoadCatch(w0))
  /\ UNCHANGED <<posts, calls, readyResult>>

\* ready(): returns this.readyPromise
Ready ==
  /\ boots.constructed
  /\ Becomes(World)
  /\ readyResult' = <<boots.readyPromise.state, boots.readyPromise.value>>
  /\ UNCHANGED <<posts, calls>>

ControllerPostMessage(p) ==
  /\ HasController /\ posts < MaxPosts
  /\ Becomes(WorkBoots_postMessage(World, p))
  /\ posts' = posts + 1
  /\ UNCHANGED <<calls, readyResult>>

ControllerOnMessage(cb) ==
  /\ HasController /\ calls < MaxCalls
  /\ Becomes(WorkBoots_onMessage(World, cb))
  /\ calls' = calls + 1
  /\ UNCHANGED <<posts, readyResult>>

ControllerTerminate ==
  /\ HasController /\ calls < MaxCalls
  /\ Becomes(WorkBoots_terminate(World))
  /\ calls' = calls + 1
  /\ UNCHANGED <<posts, readyResult>>

ControllerTerminateLegacy ==
  /\ boots.constructed /\ boots.impl = "legacy" /\ calls < MaxCalls
  /\ Becomes(Legacy_terminate(World))
  /\ calls' = calls + 1
  /\ UNCHANGED <<posts, readyResult>>

\* onMessageLocal called on the Controller
ControllerOnMessageLocal(p) ==
  /\ HasController /\ posts < MaxPosts
  /\ Becomes(WorkBoots_onMessageLocal(World, p))
  /\ posts' = posts + 1
  /\ UNCHANGED <<calls, readyResult>>

\* onMessageLocal called on the Peer
PeerOnMessageLocal(p) ==
  /\ PeerExists /\ posts < MaxPosts
  /\ Becomes(Socks_onMessageLocal(World, p))
  /\ posts' = posts + 1
  /\ UNCHANGED <<calls, readyResult>>

PeerPostMessage(p) ==
  /\ PeerExists /\ posts < MaxPosts
  /\ Becomes(Socks_postMessage(World, p))
  /\ posts' = posts + 1
  /\ UNCHANGED <<calls, readyResult>>

\* postMessage(p, origin) called on a Peer that is ready
PeerPostMessageFrom(p, origin) ==
  /\ PeerExists /\ socks.isReady /\ posts < MaxPosts
  /\ Becomes(Socks_postMessageReady(World, p, origin))
  /\ posts' = posts + 1
  /\ UNCHANGED <<calls, readyResult>>

PeerOnMessage(cb) ==
  /\ PeerExists /\ calls < MaxCalls
  /\ Becomes(Socks_onMessage(World, cb))
  /\ calls' = calls + 1
  /\ UNCHANGED <<posts, readyResult>>

PeerReady ==
  /\ PeerExists /\ calls < MaxCalls
  /\ Becomes(Socks_ready(World))
  /\ calls' = calls + 1
  /\ UNCHANGED <<posts, readyResult>>

PeerOnTerminate ==
  /\ PeerExists /\ calls < MaxCalls
  /\ Becomes(Socks_onTerminate(World))
  /\ calls' = calls + 1
  /\ UNCHANGED <<posts, readyResult>>

PeerTerminate ==
  /\ PeerExists /\ calls < MaxCalls
  /\ Becomes(Socks_terminate(World))
  /\ calls' = calls + 1
  /\ UNCHANGED <<posts, readyResult>>

\* handlers.forEach(cb => cb(event)) on the Controller's side
RECURSIVE EmitToBoots(_, _, _, _)
EmitToBoots(w, cbs, i, event) ==
  IF ~Ok(w) \/ i > Len(cbs) THEN w
  ELSE EmitToBoots(BootsCallback(w, cbs[i], event, Direct("event")), cbs, i + 1, event)

\* the handlers the handle invokes for a message event: its onmessage slot, or
\* the handlers registered with on('message', ...)
WorkerHandlers(w) ==
  IF w.worker.kind = "on" THEN w.worker.listeners
  ELSE IF w.worker.onmessage # "none" THEN <<w.worker.onmessage>> ELSE <<>>

HostHandlers(w) ==
  IF w.socks.self = "on" THEN w.host.listeners
  ELSE IF w.host.onmessage # "none" THEN <<w.host.onmessage>> ELSE <<>>

RECURSIVE EmitToSocks(_, _, _, _)
EmitToSocks(w, cbs, i, event) ==
  IF ~Ok(w) \/ i > Len(cbs) THEN w
  ELSE EmitToSocks(PeerCallback(w, cbs[i], event), cbs, i + 1, event)

\* the platform delivers the next message the remote unit sent: event.data is
\* the value handed to the host's send primitive
DeliverToController ==
  /\ WorkerIsHandle(World) /\ worker.terminated = 0
  /\ host.delivered < Len(host.sent)
  /\ LET event == Wrap(host.sent[host.delivered + 1])
         w0 == [World EXCEPT !.host.delivered = @ + 1]
     IN Becomes(EmitToBoots(w0, WorkerHandlers(w0), 1, event))
  /\ UNCHANGED <<posts, calls, readyResult>>

\* the platform delivers the next message the Controller sent to the remote unit
DeliverToPeer ==
  /\ WorkerIsHandle(World) /\ worker.terminated = 0
  /\ socks.self # "none"
  /\ worker.delivered < Len(worker.sent)
  /\ LET event == Wrap(worker.sent[worker.delivered + 1])
         w0 == [World EXCEPT !.worker.delivered = @ + 1]
     IN Becomes(EmitToSocks(w0, HostHandlers(w0), 1, event))
  /\ UNCHANGED <<posts, calls, readyResult>>

\* the handshake and the message relay
Next ==
  \/ \E f \in BOOLEAN, k \in FactoryKinds : Construct(f, k)
  \/ LoadComplete
  \/ LoadFail
  \/ \E p \in Payloads : ControllerPostMessage(p)
  \/ \E cb \in AppCallbacks : ControllerOnMessage(cb)
  \/ \E p \in Payloads : PeerPostMessage(p)
  \/ \E cb \in PeerCallbacks : PeerOnMessage(cb)
  \/ PeerReady
  \/ DeliverToController
  \/ DeliverToPeer

Spec == Init /\ [][Next]_vars

\* construction, ready() and shutdown, for both definitions of class WorkBoots
NextLifecycle ==
  \/ \E f \in BOOLEAN, k \in FactoryKinds : Construct(f, k)
  \/ \E f \in BOOLEAN, k \in FactoryKinds : ConstructLegacy(f, k)
  \/ LoadComplete
  \/ LoadFail
  \/ Ready
  \/ \E p \in Payloads : ControllerPostMessage(p)
  \/ \E cb \in AppCallbacks : ControllerOnMessage(cb)
  \/ ControllerTerminate
  \/ ControllerTerminateLegacy
  \/ PeerOnTerminate
  \/ PeerTerminate

SpecLifecycle == InitLifecycle /\ [][NextLifecycle]_vars

\* the Peer's operations around adoption, and onMessageLocal on both sides
NextPeer ==
  \/ \E f \in BOOLEAN, k \in FactoryKinds : Construct(f, k)
  \/ LoadComplete
  \/ LoadFail
  \/ \E cb \in AppCallbacks : ControllerOnMessage(cb)
  \/ \E p \in Payloads : ControllerOnMessageLocal(p)
  \/ \E p \in Payloads : PeerOnMessageLocal(p)
  \/ \E p \in Payloads : PeerPostMessage(p)
  \/ \E cb \in PeerCallbacks : PeerOnMessage(cb)
  \/ PeerReady
  \/ PeerOnTerminate
  \/ PeerTerminate

SpecPeer == InitLifecycle /\ [][NextPeer]_vars

\* the relay with edge-case payloads and with callbacks that throw
NextFaults ==
  \/ \E k \in FactoryKinds : Construct(TRUE, k)
  \/ LoadComplete
  \/ LoadFail
  \/ \E p \in EdgePayloads : ControllerPostMessage(p)
  \/ \E cb \in {"app1"} \cup ThrowingAppCallbacks : ControllerOnMessage(cb)
  \/ \E cb \in {"rec"} \cup ThrowingPeerCallbacks : PeerOnMessage(cb)
  \/ PeerPostMessage(<<"o1">>)
  \/ PeerReady
  \/ DeliverToController

SpecFaults == Init /\ [][NextFaults]_vars

\* the bridge with an application callback that posts from inside the callback
NextReentrant ==
  \/ \E k \in FactoryKinds : Construct(TRUE, k)
  \/ LoadComplete
  \/ LoadFail
  \/ \E cb \in {"app1"} \cup PostingAppCallbacks : ControllerOnMessage(cb)
  \/ \E p \in Payloads : ControllerPostMessage(p)
  \/ PeerOnMessage("rec")
  \/ \E p \in Payloads : PeerPostMessage(p)
  \/ PeerReady

SpecReentrant == Init /\ [][NextReentrant]_vars

\* the remote relay with falsy payloads and an origin argument
NextRemote ==
  \/ \E k \in {"slot", "on"} : Construct(TRUE, k)
  \/ \E p \in OpaquePayloads : ControllerPostMessage(p)
  \/ \E p \in OpaquePayloads : PeerPostMessage(p)
  \/ \E p \in OpaquePayloads, o \in Origins : PeerPostMessageFrom(p, o)
  \/ ControllerOnMessage("app1")
  \/ PeerOnMessage("rec")
  \/ PeerReady
  \/ DeliverToController
  \/ DeliverToPeer

SpecRemote == Init /\ [][NextRemote]_vars

\* ---- the claims -----------------------------------------------------------

\* the Peer is bound to the Controller through the bridge and the channel is ready
BridgeReady == boots.isReady /\ ~boots.supportsWorker /\ boots.socks = "loaded"

\* the entries a step appended to a log
Added(old, new) == SubSeq(new, Len(old) + 1, Len(new))

\* C1: no callback the application registered through Controller.onMessage is
\* ever invoked with a message whose data is the readiness sentinel
C1_SentinelNeverReachesApplication ==
  \A i \in 1..Len(blog) : DataOf(blog[i].msg) # SocksLoaded

\* C2: on a ready bridge channel whose Peer has a callback, Controller.postMessage(p)
\* for an object p without a data key invokes the Peer's callback exactly once,
\* with m such that m.data is p
C2_ControllerToPeerRoundTrip ==
  [][\A p \in Payloads :
       (/\ ControllerPostMessage(p)
        /\ ~HasDataKey(p)
        /\ BridgeReady
        /\ socks.onMessageCallback # "none")
       => /\ Len(slog') = Len(slog) + 1
          /\ DataOf(slog'[Len(slog')]) = p
          /\ slog'[Len(slog')] = Wrap(p)]_vars

\* C2's case: a bridge channel on which the Peer's callback has received {data: o1}
C2_Witness ==
  /\ BridgeReady
  /\ socks.onMessageCallback # "none"
  /\ posts > 0
  /\ slog # <<>>
  /\ slog[Len(slog)] = Wrap(<<"o1">>)

\* the Peer is adopted, has called ready() and sends through the bridge
PeerBridgeReady ==
  /\ BridgeReady
  /\ socks.boots /\ socks.self = "none"
  /\ socks.isReady /\ socks.sentReadyMessage

\* C3: on a ready, adopted Peer, Peer.postMessage(p) for p without a data key
\* invokes the Controller's application callback exactly once, with m such that
\* m.data is p
C3_PeerToControllerRoundTrip ==
  [][\A p \in Payloads :
       (/\ PeerPostMessage(p)
        /\ ~HasDataKey(p)
        /\ PeerBridgeReady
        /\ boots.onMessageCallback \in AppCallbacks)
       => /\ Len(blog') = Len(blog) + 1
          /\ DataOf(blog'[Len(blog')].msg) = p]_vars

\* C4: a payload already shaped {data: p}, posted by either side on a ready
\* bridge channel, reaches the receiving callback as exactly {data: p}
C4_NoDoubleWrapping ==
  [][\A p \in Payloads :
       HasDataKey(p) =>
         /\ (/\ ControllerPostMessage(p)
             /\ BridgeReady
             /\ socks.onMessageCallback # "none")
            => Added(slog, slog') = <<p>>
         /\ (/\ PeerPostMessage(p)
             /\ PeerBridgeReady
             /\ boots.onMessageCallback \in AppCallbacks)
            => /\ Len(blog') = Len(blog) + 1
               /\ blog'[Len(blog')].msg = p]_vars

\* what the Peer handed over in a step: to the host's send primitive, and to the
\* Controller's onMessageLocal (which hands {data: message} to the listener or to
\* the application callback)
HandedToHost == Added(host.sent, host.sent')
HandedToBoots ==
  LET kept == SelectSeq(Added(boots.receivedBeforeReady, boots'.receivedBeforeReady),
                        LAMBDA e : e.via = "local")
      seen == SelectSeq(Added(blog, blog'), LAMBDA e : e.via = "local" /\ ~e.replayed)
  IN [i \in 1..Len(kept) |-> DataOf(kept[i].msg)] \o
     [i \in 1..Len(seen) |-> DataOf(seen[i].msg)]

NotSentinel(v) == v # SocksLoaded

\* the Envelope of a payload: the payload itself when it has a data key
EnvelopeOf(p) == IF TypeofObject(p) /\ HasDataKey(p) THEN p ELSE Wrap(p)

IsPrefix(a, b) == Len(a) <= Len(b) /\ SubSeq(b, 1, Len(a)) = a

PreReadyPosted(b, l) ==
  {b.receivedBeforeReady[i].msg :
     i \in {j \in 1..Len(b.receivedBeforeReady) : b.receivedBeforeReady[j].via = "post"}}
  \cup {l[i].msg : i \in {j \in 1..Len(l) : l[j].via = "post"}}

\* the payloads that were sent to the worker: handed to the remote handle's send
\* primitive, or delivered to the bound Peer's callback
SentToWorker(wk, sl) ==
  {wk.sent[i] : i \in 1..Len(wk.sent)}
  \cup {sl[i] : i \in 1..Len(sl)} \cup {DataOf(sl[i]) : i \in 1..Len(sl)}

\* C6: the application callback observes the payloads the caller posted before
\* readiness only after the readiness promise has resolved
C6_PreReadyPostsObservedAfterReadiness ==
  \A i \in 1..Len(blog) : blog[i].via = "post" => blog[i].resolved

\* C7: the payloads posted through Controller.postMessage before the channel is
\* ready have been sent to the worker once the channel has become ready
C7_PreReadyPostsSentWhenReady ==
  [][(/\ ~boots.isReady /\ boots'.isReady
      /\ \/ boots'.supportsWorker /\ worker'.kind \in {"slot", "on"}
         \/ boots'.socks = "loaded" /\ socks'.onMessageCallback # "none")
     => PreReadyPosted(boots', blog') \subseteq SentToWorker(worker', slog')]_vars

\* value with its enclosing {data: ...} objects removed
RECURSIVE Unwrapped(_)
Unwrapped(v) == IF HasDataKey(v) THEN Unwrapped(Tail(v)) ELSE v

C9_NoDescriptorRejects ==
  (boots.constructed /\ ~boots.socksFile)
  => /\ boots.readyPromise = [state |-> "rejected", value |-> NoSocksFileErr]
     /\ readyResult \in {<<>>, <<"rejected", NoSocksFileErr>>}

\* C10: on a Controller constructed without a descriptor, postMessage, onMessage
\* and terminate do not throw and have no effect
C10_NoDescriptorNoOps ==
  (HasController /\ ~boots.socksFile)
  => /\ thrown = NoErr
     /\ boots.onMessageCallback = "none"
     /\ blog = <<>> /\ slog = <<>> /\ worker.sent = <<>>

\* C11: when the factory has thrown and the module load fails too, the
\* readiness promise resolves to the Controller, a stand-in Peer is bound, and
\* the channel is ready in bridge mode (isReady, not supportsWorker)
C11_LoadFailureBindsStandIn ==
  [][(LoadFail /\ worker.threw)
     => /\ boots'.readyPromise = [state |-> "resolved", value |-> "this"]
        /\ boots'.socks = "standin"
        /\ boots'.isReady /\ ~boots'.supportsWorker]_vars

\* the number of calls a step made to the Controller's application callback
\* as part of a replay
Replayed == Len(SelectSeq(Added(blog, blog'), LAMBDA e : e.replayed))

\* C12: an exception thrown by an application message callback never comes out
\* of Controller.postMessage or of the dispatch of a message event, and does
\* not stop the replay of the messages kept before readiness
C12_CallbackExceptionsContained ==
  [][/\ \A p \in EdgePayloads : ControllerPostMessage(p) => thrown' # CallbackErr
     /\ DeliverToController => thrown' # CallbackErr
     /\ \A cb \in ThrowingAppCallbacks :
          ControllerOnMessage(cb) => Replayed = Len(boots.receivedBeforeReady)]_vars

\* C13: Controller.postMessage does not throw whatever the payload (undefined,
\* null, '', [], {}), before readiness, in remote mode and in bridge mode; the
\* callbacks it reaches are registered and do not throw
C13_PostMessageAcceptsAnyPayload ==
  [][\A p \in EdgePayloads :
       (/\ ControllerPostMessage(p)
        /\ boots.onMessageCallback \notin ThrowingAppCallbacks
        /\ boots.socks = "loaded" => socks.onMessageCallback = "rec")
       => thrown' = NoErr]_vars

\* C14: on a Controller constructed with a descriptor, postMessage returns
\* normally in every channel state, whether or not the application called
\* onMessage and whether or not the bound Peer has a message callback
C14_NoThrowForMissingCallback ==
  [][\A p \in Payloads :
       (ControllerPostMessage(p) /\ boots.socksFile) => thrown' = NoErr]_vars

\* C15: terminate() on a Controller constructed with a descriptor never throws,
\* in whichever state and however many times it is called
C15_TerminateNeverThrows ==
  [][((ControllerTerminate \/ ControllerTerminateLegacy) /\ boots.socksFile)
     => thrown' = NoErr]_vars

\* C16: after one terminate() call a further terminate() call changes nothing;
\* in remote mode, where the number of calls the handle's terminate received
\* tells that the Controller was terminated before, it does not invoke the
\* handle's terminate again
C16_TerminateIdempotent ==
  [][(ControllerTerminate /\ worker.terminated > 0)
     => worker'.terminated = worker.terminated]_vars

\* C17: on both sides onMessageLocal raises 'onMessageLocal should not be called
\* without onMessageCallback defined' and changes nothing when no message
\* callback is registered; otherwise it calls the registered callback exactly
\* once (the Controller's with {data}, the Peer's with data) and does not raise
\* that error, and raises nothing when the callback returns normally
C17_OnMessageLocalRequiresCallback ==
  [][\A p \in Payloads :
       /\ ControllerOnMessageLocal(p) =>
            IF boots.onMessageCallback = "none"
            THEN /\ thrown' = NoCallbackErr
                 /\ UNCHANGED <<boots, worker, socks, host, blog, slog>>
            ELSE /\ thrown' = NoErr
                 /\ IF boots.onMessageCallback = "velcro"
                    THEN /\ boots'.receivedBeforeReady =
                              Append(boots.receivedBeforeReady, [msg |-> Wrap(p), via |-> "local"])
                         /\ blog' = blog
                    ELSE /\ Len(blog') = Len(blog) + 1
                         /\ blog'[Len(blog')].cb = boots.onMessageCallback
                         /\ blog'[Len(blog')].msg = Wrap(p)
                         /\ boots'.receivedBeforeReady = boots.receivedBeforeReady
       /\ PeerOnMessageLocal(p) =>
            IF socks.onMessageCallback = "none"
            THEN /\ thrown' = NoCallbackErr
                 /\ UNCHANGED <<boots, worker, socks, host, blog, slog>>
            ELSE /\ thrown' # NoCallbackErr
                 /\ socks.onMessageCallback = "rec" => thrown' = NoErr
                 /\ Added(slog, slog') = <<p>>]_vars

\* C17's case: onMessageLocal was called on a Peer without a callback and raised,
\* after a call on the Controller had reached the application's callback
C17_Witness ==
  /\ thrown = NoCallbackErr
  /\ socks.onMessageCallback = "none"
  /\ posts = 2
  /\ Len(blog) = 1 /\ blog[1].msg = Wrap(<<"o1">>) /\ blog[1].via = "local"
  /\ slog = <<>>

\* the number of times a step handed the sentinel to the Controller's
\* application callback through onMessageLocal
SentinelsHanded ==
  Len(SelectSeq(Added(blog, blog'),
                LAMBDA e : e.via = "local" /\ ~e.replayed /\ DataOf(e.msg) = SocksLoaded))

\* C18: for a Peer without host, whichever of ready() and enterBoots comes first:
\* ready() before adoption hands the Controller nothing; the later of the two
\* calls hands the sentinel to the Controller's onMessageLocal exactly once, and
\* leaves sentReadyMessage and isReady true; adoption before ready() hands nothing
C18_ReadyAdoptRace ==
  [][/\ (PeerReady /\ socks.self = "none" /\ ~socks.boots /\ ~socks.isReady)
        => /\ boots' = boots /\ blog' = blog /\ host' = host
           /\ socks'.isReady /\ ~socks'.sentReadyMessage
     /\ (LoadComplete /\ socks.self = "none" /\ socks.isReady /\ ~socks.sentReadyMessage)
        => /\ socks'.boots /\ socks'.isReady /\ socks'.sentReadyMessage
           /\ boots.onMessageCallback \in AppCallbacks => SentinelsHanded = 1
     /\ (LoadComplete /\ socks.self = "none" /\ ~socks.isReady)
        => /\ socks'.boots /\ ~socks'.isReady /\ ~socks'.sentReadyMessage
           /\ SentinelsHanded = 0
     /\ (PeerReady /\ socks.self = "none" /\ socks.boots /\ ~socks.isReady)
        => /\ socks'.isReady /\ socks'.sentReadyMessage
           /\ boots.onMessageCallback \in AppCallbacks => SentinelsHanded = 1]_vars

\* C18's case: ready() came first, the adoption sent the sentinel (the
\* application's callback saw it before the promise was resolved), once
C18_Witness ==
  /\ socks.boots /\ socks.self = "none" /\ socks.isReady /\ socks.sentReadyMessage
  /\ boots.socks = "loaded"
  /\ host.sent = <<>>
  /\ Len(blog) = 1
  /\ blog[1].msg = Wrap(SocksLoaded) /\ blog[1].via = "local" /\ ~blog[1].resolved

\* enterBoots has returned: the Controller holds the loaded Peer
Adopted == socks.boots /\ boots.socks = "loaded"

\* C19: once enterBoots has returned the Peer has no host reference, no
\* operation of the Peer touches the former host (its send primitive, its
\* handlers, its terminate), and a payload the ready Peer posts is handed to the
\* Controller's onMessageLocal
C19_NoHostAfterAdoption ==
  [][/\ Adopted => socks.self = "none" /\ socks'.self = "none" /\ host' = host
     /\ \A p \in Payloads :
          (PeerPostMessage(p) /\ Adopted /\ socks.isReady)
          => HandedToBoots = <<EnvelopeOf(p)>>]_vars

\* C19's case: a Peer that announced itself through its host was adopted, and
\* what it posted afterwards went to the Controller, not to the host
C19_Witness ==
  /\ Adopted /\ socks.self = "none"
  /\ host.sent = <<SocksLoaded>>
  /\ posts = 1
  /\ Len(boots.receivedBeforeReady) = 1
  /\ boots.receivedBeforeReady[1] = [msg |-> Wrap(Wrap(<<"o1">>)), via |-> "local"]

\* C20: whenever the readiness promise is resolved, its value is the Controller
\* and the channel is ready: isReady is true and the Controller holds what the
\* factory returned or a bound Peer (loaded or stand-in); so no postMessage
\* call made before readiness resolves it
C20_ResolvedMeansReady ==
  boots.readyPromise.state = "resolved"
  => /\ boots.readyPromise.value = "this"
     /\ boots.isReady
     /\ worker.kind # "none" \/ boots.socks # "none"

\* C21: the sentinel is the first message the Peer emits: the first value handed
\* to the host's send primitive is the sentinel, and in the step in which an
\* adopted Peer sends the sentinel through the bridge, the Controller's callback
\* is called with the sentinel before any payload of the pending queue
C21_SentinelFirst ==
  /\ [](host.sent # <<>> => host.sent[1] = SocksLoaded)
  /\ [][(/\ ~socks.sentReadyMessage /\ socks'.sentReadyMessage
          /\ socks'.boots
          /\ boots.onMessageCallback \in AppCallbacks
          /\ Added(blog, blog') # <<>>)
         => DataOf(Added(blog, blog')[1].msg) = SocksLoaded]_vars

\* C22: a payload that comes from the Peer (through the bridge or as an event
\* of the remote handle) is delivered to the application's callback only once
\* the readiness promise has been resolved
C22_NoPeerMessageBeforeReadiness ==
  \A i \in 1..Len(blog) :
    (blog[i].via \in {"local", "event"} /\ DataOf(blog[i].msg) # SocksLoaded)
    => blog[i].resolved

\* C23: on the remote path and on the bridge path with a loaded Peer, the
\* Controller is in its ready state (isReady, promise resolved) only after the
\* Peer has sent the sentinel
C23_ReadyOnlyAfterSentinel ==
  (/\ boots.isReady
   /\ boots.readyPromise.state = "resolved"
   /\ WorkerIsHandle(World) \/ boots.socks = "loaded")
  => socks.sentReadyMessage

\* C24: in remote mode every payload event the handle emits is captured by the
\* internal listener or delivered to the application's callback
C24_NoRemoteMessageMissed ==
  [][(DeliverToController /\ host.sent[host.delivered + 1] # SocksLoaded)
     => \/ Added(boots.receivedBeforeReady, boots'.receivedBeforeReady) # <<>>
        \/ Added(blog, blog') # <<>>]_vars

\* the channel is ready in remote mode
RemoteReady == boots.isReady /\ boots.supportsWorker /\ WorkerIsHandle(World)

\* C25 as stated: when ready in remote mode, Controller.postMessage(p) hands the
\* handle's send primitive the Envelope of p: {data: p} when p has no data key,
\* p itself when it has one
C25_RemoteHandsEnvelope ==
  [][\A p \in Payloads :
       (ControllerPostMessage(p) /\ RemoteReady)
       => Added(worker.sent, worker.sent') = <<EnvelopeOf(p)>>]_vars

\* C25 amended: when ready in remote mode, Controller.postMessage(p) for an
\* object p hands the handle's send primitive p itself, once, whether or not p
\* has a data key, and calls no callback
C25_RemoteHandsPayload ==
  [][\A p \in Payloads :
       (ControllerPostMessage(p) /\ RemoteReady)
       => /\ Added(worker.sent, worker.sent') = <<p>>
          /\ thrown' = NoErr
          /\ blog' = blog /\ slog' = slog]_vars

\* C25's case: a ready remote Controller posted an object without a data key
\* and then one with a data key, and the handle was given both as they were
C25_Witness ==
  /\ RemoteReady
  /\ posts = 2
  /\ worker.sent = << <<"o1">>, <<"data", "o2">> >>

\* the message event the Controller's callback receives when a ready Peer that
\* has a host posts p: its data is the value handed to the host's send primitive
AsRemoteEvent(p) ==
  LET hosted == [World EXCEPT !.cfg.env = "node", !.socks.self = "slot",
                              !.socks.isReady = TRUE, !.host.sent = <<>>]
  IN Wrap(Socks_postMessage(hosted, p).host.sent[1])

\* C26: what the Controller's application callback receives for a payload the
\* ready Peer posts through the bridge is what it receives for the same payload
\* posted through a host
C26_SameInBothModes ==
  [][\A p \in Payloads :
       (/\ PeerPostMessage(p)
        /\ PeerBridgeReady
        /\ boots.onMessageCallback \in AppCallbacks)
       => /\ Len(Added(blog, blog')) = 1
          /\ Added(blog, blog')[1].msg = AsRemoteEvent(p)]_vars

\* C27: onMessage replaces the application callback: whatever a step delivers
\* to an application callback, it delivers to the one registered last
C27_OnMessageReplaces ==
  [][\A i \in 1..Len(Added(blog, blog')) :
       Added(blog, blog')[i].cb = boots'.onMessageCallback]_vars

\* C28: each message the internal listener captured is replayed to an
\* application callback once, by the first onMessage call that follows, and
\* never again: there are never more replays than captured messages, and the
\* replays are the captured messages in order
C28_ReplayedOnce ==
  LET replays == SelectSeq(blog, LAMBDA e : e.replayed)
  IN /\ Len(replays) <= Len(boots.receivedBeforeReady)
     /\ \A i \in 1..Len(replays) : replays[i].msg = boots.receivedBeforeReady[i].msg

C30_ModeDecidedOnce ==
  /\ [](~(worker.kind # "none" /\ boots.socks # "none"))
  /\ [][boots.constructed
        => /\ ~boots.supportsWorker => ~boots'.supportsWorker
           /\ worker'.kind = worker.kind]_vars

\* C30's case: a Controller that fell back to the bridge holds the loaded Peer
\* and no handle, and has been used since
C30_Witness ==
  /\ boots.constructed /\ worker.threw
  /\ ~boots.supportsWorker /\ worker.kind = "none"
  /\ boots.socks = "loaded"
  /\ socks.terminateCalls = 1

\* the stand-in Peer is bound and the channel is ready
StandInReady == boots.isReady /\ ~boots.supportsWorker /\ boots.socks = "standin"

\* C31: with the stand-in Peer bound after a module-load failure,
\* Controller.postMessage does not throw and delivers nothing to the
\* Controller's application callback
C31_StandInIsNoOp ==
  [][\A p \in Payloads :
       (ControllerPostMessage(p) /\ StandInReady)
       => /\ thrown' = NoErr
          /\ blog' = blog]_vars

\* the callback the worker module registered last on its host
HostRegistered == HostHandlers(World)[Len(HostHandlers(World))]

\* C32: a callback registered through Peer.onMessage on the host before
\* adoption, by either subscription style, is the Peer's callback once
\* enterBoots has adopted the Peer, and a Controller.postMessage on the ready
\* bridge then reaches the Peer's callback
C32_HostCallbackSurvivesAdoption ==
  [][/\ (/\ LoadComplete
         /\ socks.self # "none"
         /\ HostHandlers(World) # <<>>
         /\ boots'.socks = "loaded")
        => socks'.onMessageCallback = HostRegistered
     /\ \A p \in Payloads :
          (/\ ControllerPostMessage(p)
           /\ BridgeReady /\ socks.boots
           /\ HostHandlers(World) # <<>>)
          => /\ thrown' = NoErr
             /\ Len(slog') = Len(slog) + 1]_vars

\* C33: Peer.terminate() invokes the termination callback once when one is
\* registered and not otherwise, invokes the host's terminate once when the
\* host reference is present and exposes one and not otherwise, never after
\* adoption, and does not throw
C33_PeerTerminate ==
  [][PeerTerminate
     => /\ socks'.terminateCalls =
             socks.terminateCalls + (IF socks.terminateCallback THEN 1 ELSE 0)
        /\ host'.terminated =
             host.terminated + (IF socks.self # "none" /\ cfg.hostTerminate THEN 1 ELSE 0)
        /\ socks.boots => host'.terminated = host.terminated
        /\ thrown' = NoErr]_vars

\* C33's case: terminate() was called with a callback on a host that exposes
\* terminate, and again after adoption: the callback ran twice, the host's
\* terminate once
C33_Witness ==
  /\ cfg.hostTerminate
  /\ socks.boots /\ socks.self = "none"
  /\ socks.terminateCalls = 2
  /\ host.terminated = 1

\* C34: Controller.terminate() routes by mode: with a remote handle it calls
\* the handle's terminate once and nothing of the Peer; with a bound loaded
\* Peer it calls the Peer's terminate (the termination callback runs once when
\* registered) and no handle's; before either exists it changes nothing; and it
\* returns normally
C34_TerminateRoutesByMode ==
  [][(ControllerTerminate \/ ControllerTerminateLegacy)
     => /\ thrown' = NoErr
        /\ IF boots.supportsWorker /\ WorkerIsHandle(World)
           THEN /\ worker'.terminated = worker.terminated + 1
                /\ socks' = socks /\ host' = host
           ELSE IF boots.socks = "loaded"
           THEN /\ socks'.terminateCalls =
                     socks.terminateCalls + (IF socks.terminateCallback THEN 1 ELSE 0)
                /\ worker' = worker
           ELSE /\ worker' = worker /\ socks' = socks /\ host' = host]_vars

\* C35: in remote mode the payload passes through unmodified: a
\* Controller.postMessage(p) on a ready remote channel hands the handle's send
\* primitive p, and a postMessage(p, origin) of a ready Peer that has a host
\* hands the host's send primitive p, for every payload, falsy ones included,
\* and every origin, in the browser and in Node
C35_RemotePayloadUnmodified ==
  [][/\ \A p \in OpaquePayloads :
          (ControllerPostMessage(p) /\ RemoteReady)
          => Added(worker.sent, worker.sent') = <<p>>
     /\ \A p \in OpaquePayloads :
          (PeerPostMessage(p) /\ socks.isReady /\ isWorkerSupported(World))
          => Added(host.sent, host.sent') = <<p>>
     /\ \A p \in OpaquePayloads, o \in Origins :
          (PeerPostMessageFrom(p, o) /\ isWorkerSupported(World))
          => Added(host.sent, host.sent') = <<p>>]_vars

\* C36: a Peer without a host that has called ready() and is not yet adopted
\* accepts postMessage(p): the call does not fail and p is kept, behind the
\* payloads queued before ready(), for delivery at adoption
C36_PostBetweenReadyAndAdoption ==
  [][\A p \in Payloads :
       (/\ PeerPostMessage(p)
        /\ socks.self = "none"
        /\ socks.isReady /\ ~socks.boots)
       => /\ thrown' = NoErr
          /\ socks'.postsBeforeReady = Append(socks.postsBeforeReady, p)]_vars

\* C37: whenever the Controller's isReady flag is true a delivery target
\* exists: a remote handle that exposes a send primitive, or a bound Peer
C37_ReadyHasTarget ==
  boots.isReady
  => \/ boots.supportsWorker /\ WorkerIsHandle(World)
     \/ boots.socks # "none"

\* the invocations of the posting callback in a step that it answers with a
\* postMessage
MessagesAnswered ==
  SelectSeq(Added(blog, blog'),
            LAMBDA e : e.cb \in PostingAppCallbacks /\ ~IsAck(e.msg))

\* those for a message that came from the Peer through the bridge
PeerMessagesAnswered ==
  SelectSeq(Added(blog, blog'),
            LAMBDA e : e.cb \in PostingAppCallbacks /\ e.via = "local" /\ ~IsAck(e.msg))

\* C38: in bridge mode, with a callback registered on the Peer, every
\* Controller.postMessage made from inside the application callback while it
\* handles a message from the Peer, a message drained during adoption included,
\* is delivered to the Peer's callback and never to the Controller's own callback
C38_ReentrantPostReachesPeer ==
  [][(/\ ~boots'.supportsWorker /\ boots'.socks = "loaded"
      /\ socks.onMessageCallback # "none"
      /\ PeerMessagesAnswered # <<>>)
     => /\ SelectSeq(Added(blog, blog'), LAMBDA e : IsAck(e.msg)) = <<>>
        /\ Len(SelectSeq(Added(slog, slog'), LAMBDA m : IsAck(m)))
             = Len(MessagesAnswered)]_vars

\* C39: when the module load succeeds, the Peer bound to the Controller is the
\* loaded module's Peer, also when an application callback throws during
\* adoption; the stand-in is bound only by a failed load
C39_LoadedPeerIsBound ==
  [][(LoadComplete /\ boots.impl = "universal") => boots'.socks = "loaded"]_vars

====
